---- MODULE Spec2Model ----
\* Framing engine of framez / fraims: the read driver (maybe_next / next),
\* the write path (send / sink), the line, delimiter and raw-bytes codecs,
\* and a bounded duplex pipe between a writer task and a reader task.
EXTENDS Integers, Sequences, FiniteSets, TLC

\* ------------------------------------------------------------------ bounds
MaxStream == 5
MaxBuf == 4
MaxItemLen == 2
MaxItems == 2
MaxCap == 2
MaxDelim == 2

\* ------------------------------------------------------- program constants
LF == 10
CR == 13
HASH == 35

\* ------------------------------------------------------------------ helpers
Min(a, b) == IF a < b THEN a ELSE b

SeqsUpTo(S, n) == UNION {[1..k -> S] : k \in 0..n}

\* s[from..to) with Rust's 0-based half-open indices
Slice(s, from, to) == SubSeq(s, from + 1, to)

Zeros(n) == [i \in 1..n |-> 0]

RECURSIVE Flatten(_)
Flatten(fs) == IF fs = <<>> THEN <<>> ELSE Head(fs) \o Flatten(Tail(fs))

IsPrefix(s, t) == Len(s) <= Len(t) /\ SubSeq(t, 1, Len(s)) = s

\* ------------------------------------------------------------ codec: Lines
\* DecodeNone framing an empty item on the call after a fruitless one
DecodeNoneOnce(s) ==
    IF s = 0 THEN [kind |-> "none", item |-> <<>>, size |-> 0, seen |-> 1]
    ELSE [kind |-> "frame", item |-> <<>>, size |-> 0, seen |-> 0]

\* Result of a decode call: kind is "none" (Ok(None)), "frame"
\* (Ok(Some((item, size)))), "error" (Err(e), e in item) or "panic" (the call
\* does not return); seen is the decoder's cursor after the call.
DecodeNone(s) == [kind |-> "none", item |-> <<>>, size |-> 0, seen |-> s]

DecodeFrame(it, n, s) == [kind |-> "frame", item |-> it, size |-> n, seen |-> s]

DecodePanic(s) == [kind |-> "panic", item |-> <<>>, size |-> 0, seen |-> s]

\* Err(e)
DecodeError(e, s) == [kind |-> "error", item |-> e, size |-> 0, seen |-> s]

\* LinesStrip without the match on a trailing '\r'
LinesStripNever(src, s) == Slice(src, 0, s)

LinesStrip(src, s) ==
    IF s > 0 /\ src[s] = CR THEN Slice(src, 0, s - 1) ELSE Slice(src, 0, s)

RECURSIVE LinesDecode(_, _)
LinesDecode(s, src) ==
    IF s < Len(src)
    THEN IF src[s + 1] = LF
         THEN DecodeFrame(LinesStrip(src, s), s + 1, 0)
         ELSE LinesDecode(s + 1, src)
    ELSE DecodeNone(s)

\* Result of an encode call: ok = FALSE is Err(BufferTooSmall).
EncodeErr(dst) == [ok |-> FALSE, size |-> 0, dst |-> dst]

EncodeInto(bytes, dst) ==
    IF Len(dst) < Len(bytes)
    THEN EncodeErr(dst)
    ELSE [ok |-> TRUE, size |-> Len(bytes),
          dst |-> [i \in 1..Len(dst) |-> IF i <= Len(bytes) THEN bytes[i] ELSE dst[i]]]

\* LinesEncode writing "\n" alone
LinesEncodeBare(item, dst) == EncodeInto(item \o <<LF>>, dst)

LinesEncode(item, dst) == EncodeInto(item \o <<CR, LF>>, dst)

\* -------------------------------------------------------- codec: Delimiter
RECURSIVE DelimiterScan(_, _, _)
DelimiterScan(delim, s, src) ==
    IF s < Len(src)
    THEN IF src[s + 1] = delim[Len(delim)]
         THEN IF s + 1 < Len(delim)
              THEN DecodePanic(s)
              ELSE IF Slice(src, s + 1 - Len(delim), s + 1) = delim
                   THEN DecodeFrame(Slice(src, 0, s + 1 - Len(delim)), s + 1, 0)
                   ELSE DelimiterScan(delim, s + 1, src)
         ELSE DelimiterScan(delim, s + 1, src)
    ELSE DecodeNone(s)

DelimiterDecode(delim, s, src) ==
    IF Len(src) < Len(delim)
    THEN DecodeNone(s)
    ELSE IF delim = <<>>
         THEN IF s + 1 > Len(src)
              THEN DecodePanic(s)
              ELSE DecodeFrame(Slice(src, 0, s + 1), s + 1, s)
         ELSE DelimiterScan(delim, s, src)

DelimiterEncode(delim, item, dst) == EncodeInto(item \o delim, dst)

\* ------------------------------------------------------------ codec: Bytes
BytesDecode(s, src) == DecodeFrame(src, Len(src), s)

BytesEncode(item, dst) == EncodeInto(item, dst)

\* ----------------------------------------------------------- codec: Packet
\* Header: packet_length: U16, raw_payload_type: U16, checksum: U32, big endian.
HeaderSize == 8

VARIABLE overflow_checks  \* the build panics on integer overflow (else it wraps)

U16(hi, lo) == hi * 256 + lo

U16Bytes(n) == <<(n \div 256) % 256, n % 256>>

\* Bitwise exclusive or, on half bytes, bytes and 4-byte words.
BitXor(a, b, w) == w * (((a \div w) + (b \div w)) % 2)

Xor4 ==
    [a \in 0..15 |-> [b \in 0..15 |->
        BitXor(a, b, 1) + BitXor(a, b, 2) + BitXor(a, b, 4) + BitXor(a, b, 8)]]

Xor8(a, b) == Xor4[a % 16][b % 16] + 16 * Xor4[a \div 16][b \div 16]

Xor32(x, y) == [i \in 1..4 |-> Xor8(x[i], y[i])]

\* crc32fast::Hasher: CRC-32 (reflected, polynomial 0xEDB88320, initial value
\* and final xor 0xFFFFFFFF). A word is its four bytes, most significant first.
CrcPoly == <<237, 184, 131, 32>>

CrcOnes == <<255, 255, 255, 255>>

ShiftRight1(x) ==
    [i \in 1..4 |-> (x[i] \div 2) + (IF i > 1 THEN (x[i - 1] % 2) * 128 ELSE 0)]

RECURSIVE CrcBits(_, _)
CrcBits(x, n) ==
    IF n = 0 THEN x
    ELSE CrcBits(IF x[4] % 2 = 1 THEN Xor32(ShiftRight1(x), CrcPoly)
                 ELSE ShiftRight1(x), n - 1)

CrcTable == [b \in 0..255 |-> CrcBits(<<0, 0, 0, b>>, 8)]

RECURSIVE CrcUpdate(_, _)
CrcUpdate(crc, data) ==
    IF data = <<>> THEN crc
    ELSE CrcUpdate(Xor32(CrcTable[Xor8(crc[4], Head(data))],
                         <<0, crc[1], crc[2], crc[3]>>), Tail(data))

\* Header::calculate_checksum
CalculateChecksum(data) == Xor32(CrcUpdate(CrcOnes, data), CrcOnes)

\* SetChecksum storing the checksum least significant byte first
SetChecksumReversed(bytes, sum) ==
    [i \in 1..Len(bytes) |-> IF i \in 5..8 THEN sum[9 - i] ELSE bytes[i]]

\* Header::clear_checksum / Header::set_checksum on the bytes of a packet
SetChecksum(bytes, sum) ==
    [i \in 1..Len(bytes) |-> IF i \in 5..8 THEN sum[i - 4] ELSE bytes[i]]

ClearChecksum(bytes) == SetChecksum(bytes, <<0, 0, 0, 0>>)

\* PayloadType::from_u16: the types 1..6 are known. The contents modelled are
\* the ones that hold a sequence number only (Heartbeat, HeartbeatAck,
\* DeviceConfigAck); the other three also need a string field.
KnownPayloadTypes == 1..6

SequenceOnlyTypes == {3, 4, 6}

\* Payload::write_to (serde_json_core::to_slice): the JSON text of the content.
\* The text is abridged to the braces and the decimal digit of the sequence
\* number; the field name is left out.
PayloadText(item) == <<123, 48 + item.sequence_number, 125>>

\* trailing JSON whitespace of a text
RECURSIVE TrimEnd(_)
TrimEnd(text) ==
    IF text # <<>> /\ text[Len(text)] = 32
    THEN TrimEnd(SubSeq(text, 1, Len(text) - 1)) ELSE text

\* Payload::payload_from_json_slice (serde_json_core::from_slice): the value
\* and the bytes consumed; trailing whitespace is consumed, any other trailing
\* character is an error.
PayloadFromJsonSlice(type, text) ==
    LET t == TrimEnd(text) IN
    IF /\ type \in SequenceOnlyTypes
       /\ Len(t) = 3
       /\ t[1] = 123
       /\ t[2] \in 48..57
       /\ t[3] = 125
    THEN [ok |-> TRUE, value |-> t[2] - 48, size |-> Len(text)]
    ELSE [ok |-> FALSE, value |-> 0, size |-> 0]

\* RawPacket::write_to
PacketEncode(item, dst) ==
    IF Len(dst) < HeaderSize THEN EncodeErr(dst)
    ELSE LET payload == PayloadText(item) IN
         IF Len(payload) > Len(dst) - HeaderSize THEN EncodeErr(dst)
         ELSE LET packet_length == HeaderSize + Len(payload)
                  ready == U16Bytes(packet_length) \o U16Bytes(item.payload_type)
                           \o <<0, 0, 0, 0>> \o payload
                  packet == SetChecksum(ready, CalculateChecksum(ready))
              IN [ok |-> TRUE, size |-> packet_length,
                  dst |-> packet \o SubSeq(dst, packet_length + 1, Len(dst))]

\* usize subtraction a - b: it panics with overflow checks, and wraps without
\* (value is then the result less 2^W, W the width of usize).
UsizeSub(a, b, checks) ==
    IF a >= b THEN [kind |-> "ok", value |-> a - b]
    ELSE IF checks THEN [kind |-> "panic", value |-> 0]
    ELSE [kind |-> "wrapped", value |-> a - b]

\* Header::payload_length of the header at the start of src
HeaderPayloadLength(src, checks) == UsizeSub(U16(src[1], src[2]), HeaderSize, checks)

\* Packet::maybe_packet_from_prefix reporting the payload size only
PacketSizePayloadOnly(payload_size) == payload_size

\* let packet_length = Header::size() + payload_size;
PacketSize(payload_size) == HeaderSize + payload_size

\* Packet::maybe_packet_from_prefix over RawPacket::maybe_raw_packet_from_prefix
PacketDecode(s, src) ==
    IF Len(src) < HeaderSize THEN DecodeNone(s)
    ELSE LET packet_length == U16(src[1], src[2])
             payload_length == HeaderPayloadLength(src, overflow_checks)
         IN
         CASE payload_length.kind = "panic" -> DecodePanic(s)
           [] payload_length.kind = "wrapped" -> DecodeNone(s)
           [] Len(src) - HeaderSize < payload_length.value -> DecodeNone(s)
           [] OTHER ->
                LET cleared == ClearChecksum(src)
                    type == U16(src[3], src[4])
                    json == PayloadFromJsonSlice(type, SubSeq(cleared, HeaderSize + 1, packet_length))
                IN
                IF SubSeq(src, 5, 8) # CalculateChecksum(SubSeq(cleared, 1, packet_length))
                THEN DecodeError("Decode(Checksum)", s)
                ELSE IF type \notin KnownPayloadTypes
                THEN DecodeError("Decode(UnknownPayloadType)", s)
                ELSE IF ~json.ok
                THEN DecodeError("Decode(Deserialize)", s)
                ELSE DecodeFrame([payload_type |-> type, sequence_number |-> json.value],
                                 PacketSize(json.size), s)

\* what decode leaves in src: header.clear_checksum() once the payload is there
PacketWrites(src) ==
    IF /\ Len(src) >= HeaderSize
       /\ U16(src[1], src[2]) >= HeaderSize
       /\ Len(src) >= U16(src[1], src[2])
    THEN ClearChecksum(src) ELSE src

\* ------------------------------------------------------------ owned codecs
VARIABLE N  \* the capacity of the items of an owned codec (its const N)

\* core::str::from_utf8 on the bytes of the model: ASCII bytes, and 0xFF, which
\* no UTF-8 text contains
Utf8Valid(bytes) == \A i \in 1..Len(bytes) : bytes[i] < 128

\* StrLines::decode
StrLinesDecode(s, src) ==
    LET r == LinesDecode(s, src) IN
    IF r.kind = "frame" /\ ~Utf8Valid(r.item)
    THEN DecodeError("Decode(Utf8)", r.seen) ELSE r

\* OwnedFits refusing a frame that fills the item
OwnedFitsBelow(item, n) == Len(item) < n

\* heapless Vec::from_slice / String::from_str succeed
OwnedFits(item, n) == Len(item) <= n

\* decode_owned over the result r of the inner decode
Owned(r, n) ==
    IF r.kind = "frame" /\ ~OwnedFits(r.item, n)
    THEN DecodeError("Decode(BufferTooSmall)", r.seen) ELSE r

\* the borrowed codec inside an owned one
Inner(c) ==
    CASE c = "owned-lines" -> "lines"
      [] c = "string-lines" -> "str-lines"
      [] c = "owned-bytes" -> "bytes"
      [] OTHER -> c

\* -------------------------------------------------------- codec dispatch
Decode(c, delim, s, src) ==
    CASE c = "lines" -> LinesDecode(s, src)
      [] c = "delimiter" -> DelimiterDecode(delim, s, src)
      [] c = "packet" -> PacketDecode(s, src)
      [] c = "str-lines" -> StrLinesDecode(s, src)
      [] c = "owned-lines" -> Owned(LinesDecode(s, src), N)
      [] c = "string-lines" -> Owned(StrLinesDecode(s, src), N)
      [] c = "owned-bytes" -> Owned(BytesDecode(s, src), N)
      [] OTHER -> BytesDecode(s, src)

\* Decoder::decode_eof: the default method, which none of the codecs overrides.
DecodeEof(c, delim, s, src) == Decode(c, delim, s, src)

Encode(c, delim, item, dst) ==
    CASE c = "lines" -> LinesEncode(item, dst)
      [] c = "delimiter" -> DelimiterEncode(delim, item, dst)
      [] c = "packet" -> PacketEncode(item, dst)
      [] OTHER -> BytesEncode(item, dst)

\* the bytes a decode call leaves in the src it was given
DecodeWrites(c, src) == IF c = "packet" THEN PacketWrites(src) ELSE src

\* ------------------------------------------------------------------- state
VARIABLES
    codec,           \* which codec the engine was built with
    delimiter,       \* Delimiter::delimiter
    seen,            \* Lines::seen / Delimiter::seen of the decoder
    buffer,          \* ReadState::buffer
    index,           \* ReadState::index
    total_consumed,  \* ReadState::total_consumed
    eof,             \* ReadState::eof
    is_framable,     \* ReadState::is_framable
    shift,           \* ReadState::shift
    ret,             \* what the last maybe_next returned
    frames,          \* the frames the caller has collected, in order
    wire,            \* every byte the pipe has accepted so far
    rpos,            \* how many bytes of wire the reader's transport has delivered
    closed,          \* the write half of the pipe is dropped
    capacity,        \* the pipe's capacity (bytes in flight)
    faults,          \* the write transport may fail
    items,           \* the items the writer task sends, in order
    taken,           \* how many items the caller has handed to send / the sink
    sent,            \* how many sends have returned Ok
    wbuffer,         \* WriteState::buffer
    wpc,             \* position inside send
    size,            \* the size encode returned
    written,         \* bytes of wbuffer[..size] accepted so far by write_all
    wret,            \* what the last send returned
    log,             \* what the writer did on the codec and transport, in order
    sink,            \* state of the sink adapter ("none": send is called directly)
    consumed,        \* the size the last successful decode reported
    calls,           \* number of maybe_next calls so far, modulo 2
    adapter,         \* how the caller pulls frames: "next" or "stream"
    results,         \* what the earlier next calls / polls ended with, in order
    call,            \* the call the last step made: <<>>, <<"read">> on the
                     \* transport, or <<method, src>> on the decoder
    early_shift,     \* the build has the feature buffer-early-shift
    reads            \* transport reads the current next call has made so far

callerVars == <<adapter, results, overflow_checks, early_shift, N>>

readerVars == <<codec, delimiter, seen, buffer, index, total_consumed, eof,
                is_framable, shift, ret, frames, rpos, consumed, calls, call,
                reads,
                callerVars>>

writerVars == <<items, taken, sent, wbuffer, wpc, size, written, wret, log, sink>>

pipeVars == <<wire, closed, capacity, faults>>

vars == <<readerVars, writerVars, pipeVars>>

MaxFrames == MaxStream + MaxItems + 2

\* The caller's collection of frames; it stops growing at MaxFrames.
Collect(fs, it) == IF Len(fs) < MaxFrames THEN Append(fs, it) ELSE fs

\* ------------------------------------------------------ read driver: state
\* ReadState::new
ReadStateNew(len) ==
    /\ buffer = Zeros(len)
    /\ index = 0
    /\ total_consumed = 0
    /\ eof = FALSE
    /\ is_framable = FALSE
    /\ shift = FALSE

\* ReadState::framable
framable == index - total_consumed

\* The caller (the framed_read! loop, next!) stops at terminal None, at an
\* error, and when a decoder call panicked; a stream has ended at "End".
DecodeErrors ==
    {"Decode(Checksum)", "Decode(UnknownPayloadType)", "Decode(Deserialize)",
     "Decode(Utf8)", "Decode(BufferTooSmall)"}

ReadErrors == {"IO", "BufferTooSmall", "BytesRemainingOnStream"} \cup DecodeErrors

Terminal == {"None", "panic", "End"} \cup ReadErrors

Running == ret \notin Terminal

\* The reads of the call in progress: a step that follows a returned frame,
\* error or None belongs to a new next call (macros.rs, next!: the loop
\* continues on Ok(None) only).
ReadsBefore == IF ret = "progress" THEN reads ELSE 0

\* Src handing the decoder the buffer from its start
SrcWhole == Slice(buffer, 0, index)

\* src handed to the decoder: &mut buffer[total_consumed..index]
Src == Slice(buffer, total_consumed, index)

\* CopyWithin leaving the bytes where they are
CopyWithinNoMove(buf, from, to) == buf

\* buffer.copy_within(total_consumed..index, 0)
CopyWithin(buf, from, to) ==
    [i \in 1..Len(buf) |-> IF i <= to - from THEN buf[from + i] ELSE buf[i]]

\* the transport filled buffer[index..index + n] with the next n bytes
Fill(buf, at, bytes) ==
    [i \in 1..Len(buf) |->
        IF i > at /\ i <= at + Len(bytes) THEN bytes[i - at] ELSE buf[i]]

\* ShiftWhenFull never asking for a shift
ShiftNever(idx, buf_len) == FALSE

\* the shift flag after a decode that framed nothing (default build)
ShiftWhenFull(idx, buf_len) == idx >= buf_len

\* Consume storing the size instead of adding it
ConsumeAssign(tc, n) == n

\* state.total_consumed += size
Consume(tc, n) == tc + n

\* Advance storing the count instead of adding it
AdvanceAssign(idx, n) == n

\* state.index += n
Advance(idx, n) == idx + n

\* ShiftEarly asking for a shift after every decode that framed nothing
ShiftEarlyAlways(tc) == TRUE

\* ShiftEarly never asking for a shift
ShiftEarlyNever(tc) == FALSE

\* the shift flag after a decode that framed nothing (buffer-early-shift)
ShiftEarly(tc) == tc > 0

\* EofAfterZero flipping the flag
EofToggle(e) == ~e

\* Ok(0) => state.eof = true
EofAfterZero(e) == TRUE

\* ReadDest handing the transport the buffer from its start
ReadDestStart(idx) == 0

\* where the transport read stores its bytes: &mut state.buffer[state.index..]
ReadDest(idx) == idx

\* FramableAfterNone leaving the flag as it is
FramableKept(f) == f

\* decode_eof returned Ok(None) => state.is_framable = false
FramableAfterNone(f) == FALSE

\* HasRoom without the test of index against buffer.len()
HasRoomAlways(idx, buf_len) == TRUE

\* the negation of `if state.index >= state.buffer.len()`
HasRoom(idx, buf_len) == idx < buf_len

\* MayRead reading although the buffer is framable
MayReadFramable(sh, fr, idx, buf_len) == ~sh /\ idx < buf_len

\* a step gets to the transport read: no shift is due, nothing is framable,
\* and the buffer has room
MayRead(sh, fr, idx, buf_len) == ~sh /\ ~fr /\ HasRoom(idx, buf_len)

\* EofOutcome ending the stream whatever is left in the buffer
EofOutcomeNone(idx, tc) == "None"

\* decode_eof framed nothing: an error if bytes are left, else the terminal None
EofOutcome(idx, tc) == IF idx # tc THEN "BytesRemainingOnStream" ELSE "None"

\* ---------------------------------------------- read driver: maybe_next
\* if state.shift { copy_within; index -= total_consumed; ... }
StepShift ==
    /\ Running
    /\ calls' = 1 - calls
    /\ UNCHANGED callerVars
    /\ shift
    /\ buffer' = CopyWithin(buffer, total_consumed, index)
    /\ index' = index - total_consumed
    /\ total_consumed' = 0
    /\ shift' = FALSE
    /\ ret' = "progress"
    /\ call' = <<>>
    /\ reads' = ReadsBefore
    /\ UNCHANGED <<codec, delimiter, seen, eof, is_framable, frames, rpos, consumed>>
    /\ UNCHANGED <<writerVars, pipeVars>>

\* if state.is_framable { if state.eof { match codec.decode_eof(..) } }
StepDecodeEof ==
    /\ Running
    /\ calls' = 1 - calls
    /\ UNCHANGED callerVars
    /\ ~shift
    /\ is_framable
    /\ eof
    /\ call' = <<"decode_eof", Src>>
    /\ reads' = ReadsBefore
    /\ LET r == DecodeEof(codec, delimiter, seen, Src) IN
       /\ seen' = r.seen
       /\ CASE r.kind = "frame" ->
                 /\ total_consumed' = Consume(total_consumed, r.size)
                 /\ consumed' = r.size
                 /\ frames' = Collect(frames, r.item)
                 /\ ret' = "frame"
                 /\ UNCHANGED is_framable
            [] r.kind = "none" ->
                 /\ is_framable' = FramableAfterNone(is_framable)
                 /\ ret' = EofOutcome(index, total_consumed)
                 /\ UNCHANGED <<total_consumed, consumed, frames>>
            [] r.kind = "error" ->
                 /\ ret' = r.item
                 /\ UNCHANGED <<total_consumed, consumed, frames, is_framable>>
            [] OTHER ->
                 /\ ret' = "panic"
                 /\ UNCHANGED <<total_consumed, consumed, frames, is_framable>>
    /\ buffer' = Fill(buffer, total_consumed, DecodeWrites(codec, Src))
    /\ UNCHANGED <<codec, delimiter, index, eof, shift, rpos>>
    /\ UNCHANGED <<writerVars, pipeVars>>

\* if state.is_framable { ... match codec.decode(..) }
StepDecode ==
    /\ Running
    /\ calls' = 1 - calls
    /\ UNCHANGED callerVars
    /\ ~shift
    /\ is_framable
    /\ ~eof
    /\ call' = <<"decode", Src>>
    /\ reads' = ReadsBefore
    /\ LET r == Decode(codec, delimiter, seen, Src) IN
       /\ seen' = r.seen
       /\ CASE r.kind = "frame" ->
                 /\ total_consumed' = Consume(total_consumed, r.size)
                 /\ consumed' = r.size
                 /\ frames' = Collect(frames, r.item)
                 /\ ret' = "frame"
                 /\ UNCHANGED <<is_framable, shift>>
            [] r.kind = "none" ->
                 /\ shift' = IF early_shift THEN ShiftEarly(total_consumed)
                             ELSE ShiftWhenFull(index, Len(buffer))
                 /\ is_framable' = FALSE
                 /\ ret' = "progress"
                 /\ UNCHANGED <<total_consumed, consumed, frames>>
            [] r.kind = "error" ->
                 /\ ret' = r.item
                 /\ UNCHANGED <<total_consumed, consumed, frames, is_framable, shift>>
            [] OTHER ->
                 /\ ret' = "panic"
                 /\ UNCHANGED <<total_consumed, consumed, frames, is_framable, shift>>
    /\ buffer' = Fill(buffer, total_consumed, DecodeWrites(codec, Src))
    /\ UNCHANGED <<codec, delimiter, index, eof, rpos>>
    /\ UNCHANGED <<writerVars, pipeVars>>

\* if state.index >= state.buffer.len() { return Err(BufferTooSmall) }
StepBufferTooSmall ==
    /\ Running
    /\ calls' = 1 - calls
    /\ UNCHANGED callerVars
    /\ ~shift
    /\ ~is_framable
    /\ index >= Len(buffer)
    /\ ret' = "BufferTooSmall"
    /\ call' = <<>>
    /\ reads' = ReadsBefore
    /\ UNCHANGED <<codec, delimiter, seen, buffer, index, total_consumed, eof,
                   is_framable, shift, frames, rpos, consumed>>
    /\ UNCHANGED <<writerVars, pipeVars>>

\* match read_write.read(&mut state.buffer[state.index..]).await
\* The read stays pending while the pipe is empty and its write half is open;
\* it returns 0 when the pipe is empty and closed, and otherwise any number of
\* bytes between 1 and what both the pipe and the destination hold.
StepRead ==
    /\ Running
    /\ calls' = 1 - calls
    /\ UNCHANGED callerVars
    /\ MayRead(shift, is_framable, index, Len(buffer))
    /\ call' = <<"read">>
    /\ reads' = ReadsBefore + 1
    /\ \/ /\ rpos = Len(wire)
          /\ closed
          /\ eof' = EofAfterZero(eof)
          /\ is_framable' = TRUE
          /\ ret' = "progress"
          /\ UNCHANGED <<buffer, index, rpos>>
       \/ \E n \in 1..Min(Len(wire) - rpos, Len(buffer) - index) :
          /\ buffer' = Fill(buffer, ReadDest(index), Slice(wire, rpos, rpos + n))
          /\ rpos' = rpos + n
          /\ index' = Advance(index, n)
          /\ is_framable' = TRUE
          /\ ret' = "progress"
          /\ UNCHANGED eof
    /\ UNCHANGED <<codec, delimiter, seen, total_consumed, shift, frames, consumed>>
    /\ UNCHANGED <<writerVars, pipeVars>>

\* Err(err) => Some(Err(ReadError::IO(err))), over a transport that may fail
StepReadError ==
    /\ Running
    /\ calls' = 1 - calls
    /\ UNCHANGED callerVars
    /\ faults
    /\ MayRead(shift, is_framable, index, Len(buffer))
    /\ call' = <<"read">>
    /\ reads' = ReadsBefore + 1
    /\ ret' = "IO"
    /\ UNCHANGED <<codec, delimiter, seen, buffer, index, total_consumed, eof,
                   is_framable, shift, frames, rpos, consumed>>
    /\ UNCHANGED <<writerVars, pipeVars>>

maybe_next ==
    \/ StepShift
    \/ StepDecodeEof
    \/ StepDecode
    \/ StepBufferTooSmall
    \/ StepRead

\* ------------------------------------- the read driver over a given stream
\* The caller pulls frames with next! / framed_read!, and has not seen a
\* terminal result yet; the build is the test build (overflow checks on,
\* default features), and no owned codec is in use.
CallerNext ==
    /\ adapter = "next"
    /\ results = <<>>
    /\ call = <<>>
    /\ reads = 0
    /\ overflow_checks = TRUE
    /\ early_shift = FALSE
    /\ N = 0

WriterIdle ==
    /\ items = <<>>
    /\ taken = 0
    /\ sent = 0
    /\ wbuffer = <<>>
    /\ wpc = "idle"
    /\ size = 0
    /\ written = 0
    /\ wret = "start"
    /\ log = <<>>
    /\ sink = "none"

LineBytes == {97, CR, LF}

DelimBytes == {97, HASH}

RawBytes == {97, 98}

InitRead ==
    /\ codec \in {"lines", "delimiter", "bytes"}
    /\ delimiter = IF codec = "delimiter" THEN <<HASH, HASH>> ELSE <<>>
    /\ seen = 0
    /\ \E len \in 0..MaxBuf : ReadStateNew(len)
    /\ ret = "start"
    /\ frames = <<>>
    /\ consumed = 0
    /\ calls = 0
    /\ CallerNext
    /\ wire \in SeqsUpTo(CASE codec = "lines" -> LineBytes
                           [] codec = "delimiter" -> DelimBytes
                           [] OTHER -> RawBytes, MaxStream)
    /\ rpos = 0
    /\ closed = TRUE
    /\ capacity = MaxStream
    /\ faults = FALSE
    /\ WriterIdle

NextRead == maybe_next

SpecRead == InitRead /\ [][NextRead]_vars

\* ------------------------------------------- what a stream is made of
\* position (0-based) of the first occurrence of pat in s, or -1
FirstAt(s, pat) ==
    LET hits == {k \in 0..(Len(s) - Len(pat)) : Slice(s, k, k + Len(pat)) = pat}
    IN IF hits = {} THEN -1 ELSE CHOOSE k \in hits : \A j \in hits : k <= j

\* the pieces of s that end in the terminator term, without it, in order
RECURSIVE Pieces(_, _)
Pieces(s, term) ==
    LET k == FirstAt(s, term)
    IN IF k < 0 THEN <<>>
       ELSE <<Slice(s, 0, k)>> \o Pieces(Slice(s, k + Len(term), Len(s)), term)

\* what is left of s after its last terminated piece
RECURSIVE Rest(_, _)
Rest(s, term) ==
    LET k == FirstAt(s, term)
    IN IF k < 0 THEN s ELSE Rest(Slice(s, k + Len(term), Len(s)), term)

DropCR(line) ==
    IF line # <<>> /\ line[Len(line)] = CR THEN Slice(line, 0, Len(line) - 1) ELSE line

\* the lines of the stream as the line codec presents them
StreamLines == [i \in 1..Len(Pieces(wire, <<LF>>)) |-> DropCR(Pieces(wire, <<LF>>)[i])]

\* every piece with its terminator fits a buffer of n bytes
AllFit(s, term, n) ==
    \A i \in 1..Len(Pieces(s, term)) : Len(Pieces(s, term)[i]) + Len(term) <= n

\* number of pieces in front of the first piece that does not fit n bytes
FitCount(s, term, n) ==
    LET ps == Pieces(s, term)
        bad == {i \in 1..Len(ps) : Len(ps[i]) + Len(term) > n}
    IN IF bad = {} THEN Len(ps) ELSE (CHOOSE i \in bad : \A j \in bad : i <= j) - 1

\* the stream the transport delivers is lines that fit the buffer, and an
\* unterminated tail, if any, shorter than the buffer
LinesFit ==
    /\ codec = "lines"
    /\ AllFit(wire, <<LF>>, Len(buffer))
    /\ Rest(wire, <<LF>>) # <<>> => Len(Rest(wire, <<LF>>)) < Len(buffer)

LinesOutcome ==
    /\ IsPrefix(frames, StreamLines)
    /\ ~Running =>
          /\ frames = StreamLines
          /\ ret = IF Rest(wire, <<LF>>) = <<>> THEN "None" ELSE "BytesRemainingOnStream"

\* C1 (as stated): for every buffer length, a stream of lines that fit the
\* buffer is yielded line by line, in order, and ends in terminal None, or in
\* BytesRemainingOnStream when an unterminated tail shorter than the buffer
\* follows the last line.
C1_AnyBufferLength == LinesFit => LinesOutcome

\* C1 (amended): the same for every buffer length of at least one byte.
C1_LinesFraming == (LinesFit /\ Len(buffer) >= 1) => LinesOutcome

C1_Witness ==
    /\ LinesFit
    /\ ret = "BytesRemainingOnStream"
    /\ Len(frames) >= 2
    /\ \E i \in 1..Len(frames) : Pieces(wire, <<LF>>)[i] # frames[i]

\* C2: when a line with its terminator is longer than the buffer, the lines in
\* front of it are yielded and the session ends in BufferTooSmall.
C2_LineTooLong ==
    (codec = "lines" /\ ~AllFit(wire, <<LF>>, Len(buffer))) =>
        /\ IsPrefix(frames, SubSeq(StreamLines, 1, FitCount(wire, <<LF>>, Len(buffer))))
        /\ ~Running =>
              /\ frames = SubSeq(StreamLines, 1, FitCount(wire, <<LF>>, Len(buffer)))
              /\ ret = "BufferTooSmall"

C2_Witness ==
    /\ codec = "lines"
    /\ ~AllFit(wire, <<LF>>, Len(buffer))
    /\ ret = "BufferTooSmall"
    /\ Len(frames) >= 1

\* C3: with delimiter "##", the frames are the pieces of the stream between
\* delimiters, in order, when each piece with its delimiter fits the buffer;
\* a non-empty unterminated tail gives BytesRemainingOnStream after them.
\* (Stated for buffers of at least one byte and tails shorter than the buffer.)
C3_DelimiterFraming ==
    (/\ codec = "delimiter"
     /\ AllFit(wire, delimiter, Len(buffer))
     /\ Len(buffer) >= 1
     /\ Len(Rest(wire, delimiter)) < Len(buffer)) =>
        /\ IsPrefix(frames, Pieces(wire, delimiter))
        /\ ~Running =>
              /\ frames = Pieces(wire, delimiter)
              /\ ret = IF Rest(wire, delimiter) = <<>>
                       THEN "None" ELSE "BytesRemainingOnStream"

\* --------------------------------------------- encode, then decode: the codecs
\* One item is encoded into a destination, and the encoded prefix is decoded
\* by a decoder that has decoded nothing before (seen = 0).
ReaderUnused ==
    /\ ReadStateNew(0)
    /\ rpos = 0

PipeUnused ==
    /\ wire = <<>>
    /\ closed = FALSE
    /\ capacity = 0
    /\ faults = FALSE

InitRoundTrip ==
    /\ codec \in {"lines", "delimiter"}
    /\ delimiter \in IF codec = "delimiter"
                     THEN SeqsUpTo(DelimBytes, MaxDelim) \ {<<>>} ELSE {<<>>}
    /\ seen = 0
    /\ ReaderUnused
    /\ ret = "start"
    /\ frames = <<>>
    /\ consumed = 0
    /\ calls = 0
    /\ CallerNext
    /\ PipeUnused
    /\ \E item \in SeqsUpTo(IF codec = "lines" THEN LineBytes ELSE DelimBytes, MaxItemLen) :
          items = <<item>>
    /\ \E len \in 0..(MaxItemLen + MaxDelim + 1) : wbuffer = Zeros(len)
    /\ taken = 0
    /\ sent = 0
    /\ wpc = "idle"
    /\ size = 0
    /\ written = 0
    /\ wret = "start"
    /\ log = <<>>
    /\ sink = "none"

\* codec.encode(item, dst)
RoundTripEncode ==
    /\ wpc = "idle"
    /\ LET e == Encode(codec, delimiter, items[1], wbuffer) IN
       /\ wbuffer' = e.dst
       /\ size' = e.size
       /\ wret' = IF e.ok THEN "Ok" ELSE "Encode"
       /\ wpc' = IF e.ok THEN "encoded" ELSE "stopped"
    /\ UNCHANGED <<items, taken, sent, written, log, sink>>
    /\ UNCHANGED <<readerVars, pipeVars>>

\* codec.decode(&mut dst[..size]) with a fresh decoder
RoundTripDecode ==
    /\ wpc = "encoded"
    /\ LET r == Decode(codec, delimiter, seen, Slice(wbuffer, 0, size)) IN
       /\ seen' = r.seen
       /\ consumed' = r.size
       /\ frames' = IF r.kind = "frame" THEN <<r.item>> ELSE <<>>
       /\ ret' = CASE r.kind = "frame" -> "frame"
                   [] r.kind = "none" -> "progress"
                   [] OTHER -> "panic"
    /\ wpc' = "decoded"
    /\ UNCHANGED <<calls, codec, delimiter, buffer, index, total_consumed, eof,
                   is_framable, shift, rpos, call, reads, callerVars>>
    /\ UNCHANGED <<items, taken, sent, wbuffer, size, written, wret, log, sink>>
    /\ UNCHANGED pipeVars

NextRoundTrip == RoundTripEncode \/ RoundTripDecode

SpecRoundTrip == InitRoundTrip /\ [][NextRoundTrip]_vars

\* s holds pat as a contiguous subsequence
Contains(s, pat) == FirstAt(s, pat) >= 0

\* C4: a line item without '\n', encoded into a destination of at least
\* item.len() + 2 bytes and decoded by a fresh Lines decoder, comes back equal,
\* with a consumed size of item.len() + 2.
C4_LinesRoundTrip ==
    (codec = "lines" /\ ~Contains(items[1], <<LF>>) /\ Len(wbuffer) >= Len(items[1]) + 2) =>
        /\ wpc # "stopped"
        /\ wpc = "decoded" =>
              /\ ret = "frame"
              /\ frames = <<items[1]>>
              /\ consumed = Len(items[1]) + 2
              /\ Slice(wbuffer, 0, size) = items[1] \o <<CR, LF>>

C4_Witness ==
    /\ codec = "lines"
    /\ wpc = "decoded"
    /\ ret = "frame"
    /\ items[1] = <<97, CR>>
    /\ frames = <<items[1]>>

\* C5: with a non-empty delimiter, an item that does not contain the
\* delimiter, encoded and decoded by a fresh Delimiter decoder, comes back
\* equal, with a consumed size of item.len() + delimiter.len().
C5_DelimiterRoundTrip ==
    (/\ codec = "delimiter"
     /\ ~Contains(items[1], delimiter)
     /\ wpc = "decoded") =>
        /\ ret = "frame"
        /\ frames = <<items[1]>>
        /\ consumed = Len(items[1]) + Len(delimiter)

\* ------------------------------------------------------- write path: send
\* Entries of log: <<op, item number, bytes>>.
Logged(op, bytes) == Append(log, <<op, taken, bytes>>)

\* bytes the pipe can still take
PipeFree == capacity - (Len(wire) - rpos)

\* where send goes after codec.encode returned: Err leaves send, Ok(size)
\* enters write_all, whose loop body does not run for an empty slice
StageAfterEncode(ok, n) ==
    IF ~ok THEN "stopped" ELSE IF n = 0 THEN "flush" ELSE "write_all"

\* StageAfterWrite with a single write call in place of write_all
StageAfterFirstWrite(w, n) == "flush"

\* write_all: while the slice is not empty, write again
StageAfterWrite(w, n) == IF w < n THEN "write_all" ELSE "flush"

\* ErrorOf reporting every failure as a transport failure
ErrorAlwaysIO(stage) == "IO"

\* the WriteError a failing stage is mapped to
ErrorOf(stage) == IF stage = "encode" THEN "Encode" ELSE "IO"

\* SinkReady taking an item while a send future is in flight
SinkAlwaysReady(s) == TRUE

\* the sink adapter (futures::sink::unfold) takes an item only while it holds
\* the engine, that is, while no send future is in flight
SinkReady(s) == s = "Value"

\* the adapter's state once the send future has completed
SinkAfterSend(s, ok) == IF s = "none" THEN "none" ELSE IF ok THEN "Value" ELSE "Empty"

\* framed.send(item).await is called
SendCall ==
    /\ sink = "none"
    /\ wpc = "idle"
    /\ taken < Len(items)
    /\ taken' = taken + 1
    /\ wpc' = "encode"
    /\ UNCHANGED <<items, sent, wbuffer, size, written, wret, log, sink>>
    /\ UNCHANGED <<readerVars, pipeVars>>

\* the sink is given an item (start_send after poll_ready): it creates the
\* send future, which has not run yet
SinkStartSend ==
    /\ sink # "none"
    /\ SinkReady(sink)
    /\ taken < Len(items)
    /\ taken' = taken + 1
    /\ sink' = "Future"
    /\ wpc' = "encode"
    /\ UNCHANGED <<items, sent, wbuffer, size, written, wret, log>>
    /\ UNCHANGED <<readerVars, pipeVars>>

\* match self.codec.encode(item, state.buffer)
SendEncode ==
    /\ wpc = "encode"
    /\ LET e == Encode(codec, delimiter, items[taken], wbuffer) IN
       /\ wbuffer' = e.dst
       /\ size' = e.size
       /\ written' = 0
       /\ wpc' = StageAfterEncode(e.ok, e.size)
       /\ IF e.ok
          THEN /\ log' = Logged("encode", Slice(e.dst, 0, e.size))
               /\ UNCHANGED <<wret, sink>>
          ELSE /\ log' = Logged("encode_err", <<>>)
               /\ wret' = ErrorOf("encode")
               /\ sink' = SinkAfterSend(sink, FALSE)
    /\ UNCHANGED <<items, taken, sent>>
    /\ UNCHANGED <<readerVars, pipeVars>>

\* one write call of self.read_write.write_all(&state.buffer[..size]).await:
\* pending while the pipe is full, else it accepts between 1 byte and what
\* the pipe can take, or fails
SendWrite ==
    /\ wpc = "write_all"
    /\ \/ \E k \in 1..Min(size - written, PipeFree) :
          /\ wire' = wire \o Slice(wbuffer, written, written + k)
          /\ written' = written + k
          /\ log' = Logged("write", Slice(wbuffer, written, written + k))
          /\ wpc' = StageAfterWrite(written + k, size)
          /\ UNCHANGED <<wret, sink>>
       \/ /\ faults
          /\ log' = Logged("write_err", <<>>)
          /\ wret' = ErrorOf("write_all")
          /\ wpc' = "stopped"
          /\ sink' = SinkAfterSend(sink, FALSE)
          /\ UNCHANGED <<wire, written>>
    /\ UNCHANGED <<items, taken, sent, wbuffer, size>>
    /\ UNCHANGED <<closed, capacity, faults>>
    /\ UNCHANGED readerVars

\* match self.read_write.flush().await
SendFlush ==
    /\ wpc = "flush"
    /\ \/ /\ log' = Logged("flush", <<>>)
          /\ wret' = "Ok"
          /\ wpc' = "idle"
          /\ sent' = sent + 1
          /\ sink' = SinkAfterSend(sink, TRUE)
       \/ /\ faults
          /\ log' = Logged("flush_err", <<>>)
          /\ wret' = ErrorOf("flush")
          /\ wpc' = "stopped"
          /\ sink' = SinkAfterSend(sink, FALSE)
          /\ UNCHANGED sent
    /\ UNCHANGED <<items, taken, wbuffer, size, written>>
    /\ UNCHANGED <<readerVars, pipeVars>>

\* the writer task ends (all items sent, or a send failed): the write half
\* of the pipe is dropped
WriterClose ==
    /\ ~closed
    /\ \/ wpc = "stopped"
       \/ wpc = "idle" /\ taken = Len(items)
    /\ closed' = TRUE
    /\ UNCHANGED <<wire, capacity, faults>>
    /\ UNCHANGED <<readerVars, writerVars>>

WriterNext == SinkStartSend \/ SendEncode \/ SendWrite \/ SendFlush \/ WriterClose

\* -------------------------------------- the writer over a transport that
\* accepts short writes and may fail
ItemBytes == {97, 98}

Terminator(c, delim) ==
    CASE c = "lines" -> <<CR, LF>>
      [] c = "delimiter" -> delim
      [] OTHER -> <<>>

InitSend ==
    /\ codec \in {"lines", "delimiter", "bytes"}
    /\ delimiter = IF codec = "delimiter" THEN <<HASH, HASH>> ELSE <<>>
    /\ seen = 0
    /\ ReaderUnused
    /\ ret = "start"
    /\ frames = <<>>
    /\ consumed = 0
    /\ calls = 0
    /\ CallerNext
    /\ wire = <<>>
    /\ closed = FALSE
    /\ capacity = MaxItems * (MaxItemLen + MaxDelim)
    /\ faults = TRUE
    /\ items \in SeqsUpTo(SeqsUpTo(ItemBytes, MaxItemLen), MaxItems)
    /\ \E len \in MaxItemLen..(MaxItemLen + MaxDelim) : wbuffer = Zeros(len)
    /\ taken = 0
    /\ sent = 0
    /\ wpc = "idle"
    /\ size = 0
    /\ written = 0
    /\ wret = "start"
    /\ log = <<>>
    /\ sink \in {"none", "Value"}

NextSend == SendCall \/ WriterNext

SpecSend == InitSend /\ [][NextSend]_vars

\* what the writer did for item i, in order
LogOf(i) == SelectSeq(log, LAMBDA e : e[2] = i)

\* the encoding of item i: the item followed by the codec's terminator
Encoding(i) == items[i] \o Terminator(codec, delimiter)

\* the bytes of the write calls in l[from..to], concatenated
WrittenIn(l, from, to) == Flatten([j \in 1..(to - from + 1) |-> l[from + j - 1][3]])

\* encode, then write calls that together carry exactly the encoded bytes,
\* then one flush, and nothing else
CompleteSend(i) ==
    LET l == LogOf(i)
        n == Len(l)
    IN /\ n >= 2
       /\ l[1][1] = "encode"
       /\ l[1][3] = Encoding(i)
       /\ \A j \in 2..(n - 1) : l[j][1] = "write" /\ l[j][3] # <<>>
       /\ WrittenIn(l, 2, n - 1) = l[1][3]
       /\ l[n][1] = "flush"

\* C7: a send that returned Ok encoded the item, wrote exactly the encoded
\* bytes (over one or several write calls) and then flushed once, in this
\* order, and did nothing else on the transport.
C7_SendOrder == \A i \in 1..sent : CompleteSend(i)

C7_Witness ==
    /\ codec = "lines"
    /\ sent >= 1
    /\ LogOf(1) = <<<<"encode", 1, <<97, 98, CR, LF>>>>, <<"write", 1, <<97>>>>,
                    <<"write", 1, <<98, CR, LF>>>>, <<"flush", 1, <<>>>>>>

Failures == {"encode_err", "write_err", "flush_err"}

\* C8: send returns the error of the first stage that fails and runs no later
\* stage; it returns Ok only after encode, write-all and flush all succeeded.
C8_FirstFailure ==
    /\ \A p \in 1..(Len(log) - 1) : log[p][1] \notin Failures
    /\ wret = "Ok" => sent >= 1 /\ CompleteSend(sent)
    /\ wret \in {"Encode", "IO"} <=> wpc = "stopped"
    /\ wpc = "stopped" =>
          LET l == LogOf(taken)
              n == Len(l)
          IN /\ l[n] = log[Len(log)]
             /\ wret = "Encode" <=> l[n][1] = "encode_err"
             /\ wret = "IO" <=> l[n][1] \in {"write_err", "flush_err"}
             /\ l[n][1] = "encode_err" =>
                   n = 1 /\ Len(wbuffer) < Len(Encoding(taken))
             /\ l[n][1] = "write_err" =>
                   /\ l[1][1] = "encode"
                   /\ \A j \in 2..(n - 1) : l[j][1] = "write"
                   /\ Len(WrittenIn(l, 2, n - 1)) < Len(l[1][3])
             /\ l[n][1] = "flush_err" =>
                   /\ l[1][1] = "encode"
                   /\ \A j \in 2..(n - 1) : l[j][1] = "write"
                   /\ WrittenIn(l, 2, n - 1) = l[1][3]

C8_Witness ==
    /\ wpc = "stopped"
    /\ wret = "IO"
    /\ sent = 1
    /\ Len(LogOf(2)) = 3
    /\ LogOf(2)[3][1] = "write_err"

\* C9: the bytes the transport accepted are the encodings of the items in
\* call order, and the encode of an item comes right after the flush of the
\* item before it, with direct sends and through the sink alike.
C9_NoBatching ==
    /\ IsPrefix(Flatten([i \in 1..sent |-> Encoding(i)]), wire)
    /\ IsPrefix(wire, Flatten([i \in 1..taken |-> Encoding(i)]))
    /\ \A p \in 1..Len(log) :
          log[p][1] \in {"encode", "encode_err"} =>
              IF p = 1 THEN log[p][2] = 1
              ELSE log[p - 1] = <<"flush", log[p][2] - 1, <<>>>>
    /\ \A p \in 2..Len(log) :
          log[p][1] \notin {"encode", "encode_err"} => log[p][2] = log[p - 1][2]

C9_Witness ==
    /\ sink = "Value"
    /\ sent = 2
    /\ items[1] # items[2]
    /\ wire = Encoding(1) \o Encoding(2)
    /\ Len(log) > 6

\* ------------------------------- the read driver called again and again
\* next! and the framed_read! loop call maybe_next until it is terminal.
FairSpecRead == InitRead /\ [][NextRead]_vars /\ WF_vars(NextRead)

\* C6: with the raw bytes codec and a buffer of at least one byte, repeated
\* next yields frames that together are the stream, and then terminal None.
C6_BytesTerminates ==
    <>(\/ codec # "bytes"
       \/ Len(buffer) = 0
       \/ ret = "None" /\ Flatten(frames) = wire)

\* ---------------------- a writer task and a reader task over a duplex pipe
\* The writer pushes line items through the sink and drops its half of the
\* pipe; the reader pulls frames with next. Both tasks are polled again and
\* again by the runtime.
PipeBytes == {97, CR}

InitPipe ==
    /\ codec = "lines"
    /\ delimiter = <<>>
    /\ seen = 0
    /\ \E len \in (MaxItemLen + 1)..(MaxItemLen + 2) : ReadStateNew(len)
    /\ ret = "start"
    /\ frames = <<>>
    /\ consumed = 0
    /\ calls = 0
    /\ CallerNext
    /\ wire = <<>>
    /\ rpos = 0
    /\ closed = FALSE
    /\ capacity \in 1..MaxCap
    /\ faults = FALSE
    /\ items \in SeqsUpTo(SeqsUpTo(PipeBytes, MaxItemLen), MaxItems)
    /\ wbuffer = Zeros(MaxItemLen + 2)
    /\ taken = 0
    /\ sent = 0
    /\ wpc = "idle"
    /\ size = 0
    /\ written = 0
    /\ wret = "start"
    /\ log = <<>>
    /\ sink = "Value"

NextPipe == maybe_next \/ WriterNext

SpecPipe ==
    InitPipe /\ [][NextPipe]_vars /\ WF_vars(maybe_next) /\ WF_vars(WriterNext)

\* every item with its terminator fits the read buffer
ItemsFit == \A i \in 1..Len(items) : Len(items[i]) + 2 <= Len(buffer)

MaxAgain == 2

InitAgain ==
    /\ codec \in {"lines", "delimiter", "bytes"}
    /\ delimiter = IF codec = "delimiter" THEN <<HASH, HASH>> ELSE <<>>
    /\ seen = 0
    /\ \E len \in 0..MaxBuf : ReadStateNew(len)
    /\ ret = "start"
    /\ frames = <<>>
    /\ consumed = 0
    /\ calls = 0
    /\ adapter \in {"next", "stream"}
    /\ results = <<>>
    /\ call = <<>>
    /\ reads = 0
    /\ overflow_checks = TRUE
    /\ early_shift = FALSE
    /\ N = 0
    /\ wire \in SeqsUpTo(CASE codec = "lines" -> LineBytes
                           [] codec = "delimiter" -> DelimBytes
                           [] OTHER -> RawBytes, MaxStream)
    /\ rpos = 0
    /\ closed = TRUE
    /\ capacity = MaxStream
    /\ faults = FALSE
    /\ WriterIdle

\* FramedCore::next called once more; its loop starts stepping again
CallAgain ==
    /\ adapter = "next"
    /\ ret \in {"None"} \cup ReadErrors
    /\ Len(results) < MaxAgain
    /\ results' = Append(results, ret)
    /\ ret' = "again"
    /\ UNCHANGED <<codec, delimiter, seen, buffer, index, total_consumed, eof,
                   is_framable, shift, frames, rpos, consumed, calls, call, reads,
                   adapter, overflow_checks, early_shift, N>>
    /\ UNCHANGED <<writerVars, pipeVars>>

\* ErroredAfter never setting the flag
ErroredNever(r) == FALSE

\* the flag the stream's closure keeps after next returned r:
\* Some(Err(err)) => Some((Err(err), (this, true)))
ErroredAfter(r) == r \in ReadErrors

\* the stream is polled again after it yielded an error:
\* if errored { return None; } match this.next(map).await { .. }
StreamPoll ==
    /\ adapter = "stream"
    /\ ret \in ReadErrors
    /\ Len(results) < MaxAgain
    /\ results' = Append(results, ret)
    /\ ret' = IF ErroredAfter(ret) THEN "End" ELSE "again"
    /\ UNCHANGED <<codec, delimiter, seen, buffer, index, total_consumed, eof,
                   is_framable, shift, frames, rpos, consumed, calls, call, reads,
                   adapter, overflow_checks, early_shift, N>>
    /\ UNCHANGED <<writerVars, pipeVars>>

NextAgain == maybe_next \/ CallAgain \/ StreamPoll

SpecAgain == InitAgain /\ [][NextAgain]_vars

driverVars == <<seen, buffer, index, total_consumed, eof, is_framable, shift,
                rpos, calls>>

\* C11: with the stream adapter, the first error is yielded once: the poll
\* after it yields the end of the stream, no error is yielded a second time,
\* and from the yielded error on the driver is not stepped (no read, no
\* decode, no change of the engine's state).
C11_StreamTerminalOnError ==
    /\ [](adapter = "stream" =>
            /\ Len(results) <= 1
            /\ (results # <<>> => ret = "End" /\ results[1] \in ReadErrors))
    /\ [][(adapter = "stream" /\ ret \in ReadErrors \cup {"End"})
            => UNCHANGED <<driverVars, frames>>]_vars

C11_Witness ==
    /\ adapter = "stream"
    /\ frames # <<>>
    /\ results = <<"BytesRemainingOnStream">>
    /\ ret = "End"

\* the source reported end-of-stream to the engine and has nothing left
SourceAtEof == eof /\ closed /\ rpos = Len(wire)

\* C12: a decode_eof step (is_framable and eof set) that frames nothing clears
\* is_framable and returns BytesRemainingOnStream when index differs from
\* total_consumed, else terminal None; and a step returns terminal None only
\* so: at end-of-stream, with no unconsumed byte left.
C12_EofNone ==
    [][calls' # calls =>
        /\ (is_framable /\ eof /\ ~shift
              /\ DecodeEof(codec, delimiter, seen, Src).kind = "none")
           => /\ ~is_framable'
              /\ ret' = IF index # total_consumed
                        THEN "BytesRemainingOnStream" ELSE "None"
        /\ ret' = "None"
           => /\ is_framable /\ ~shift /\ SourceAtEof
              /\ DecodeEof(codec, delimiter, seen, Src).kind = "none"
              /\ index = total_consumed
              /\ framable' = 0]_vars

C12_Witness ==
    /\ ret = "BytesRemainingOnStream"
    /\ eof
    /\ ~is_framable
    /\ index # total_consumed
    /\ frames # <<>>

\* C13: once next has returned terminal None, every later next call on the
\* engine returns None as well: no frame and no error follows a None.
C13_NoneAbsorbing ==
    adapter = "next" =>
        /\ \A i \in 1..Len(results) : \A j \in 1..Len(results) :
              (i < j /\ results[i] = "None") => results[j] = "None"
        /\ (results # <<>> /\ results[Len(results)] = "None")
              => /\ ret \in {"again", "progress", "None"}
                 /\ SourceAtEof

C13_Witness ==
    /\ adapter = "next"
    /\ frames # <<>>
    /\ Len(results) = MaxAgain
    /\ results[1] = "None"
    /\ ret = "None"

\* C19 (I1): total_consumed <= index <= buffer.len() in every reachable state,
\* so that framable() never underflows (the decoders of the model report at
\* most the length of their src, the transport at most the room it was given).
C19_I1 ==
    /\ 0 <= total_consumed
    /\ total_consumed <= index
    /\ index <= Len(buffer)
    /\ framable >= 0

C19_Witness ==
    /\ total_consumed > 0
    /\ total_consumed < index
    /\ index = Len(buffer)
    /\ ret = "frame"

\* ------------------------------------------- packets through a pipe
\* codec.rs, test encode_decode: a task encodes the packets one after the other
\* into its write buffer and writes each to the pipe; the reader pulls them
\* with next!. The reads return the bytes in flight in arbitrary pieces.
PacketSet == [payload_type : {3, 4}, sequence_number : 0..1]

\* the length of an encoded packet of PacketSet
PacketLen == HeaderSize + Len(PayloadText([payload_type |-> 3, sequence_number |-> 0]))

InitPacket ==
    /\ codec = "packet"
    /\ delimiter = <<>>
    /\ seen = 0
    /\ \E len \in {HeaderSize, PacketLen, PacketLen + MaxBuf} : ReadStateNew(len)
    /\ ret = "start"
    /\ frames = <<>>
    /\ consumed = 0
    /\ calls = 0
    /\ CallerNext
    /\ wire = <<>>
    /\ rpos = 0
    /\ closed = FALSE
    /\ capacity = HeaderSize
    /\ faults = FALSE
    /\ items \in SeqsUpTo(PacketSet, MaxItems)
    /\ \E len \in {HeaderSize - 1, PacketLen - 1, PacketLen, PacketLen + 1} :
          wbuffer = Zeros(len)
    /\ taken = 0
    /\ sent = 0
    /\ wpc = "idle"
    /\ size = 0
    /\ written = 0
    /\ wret = "start"
    /\ log = <<>>
    /\ sink = "none"

\* encoder.encode(packet, &mut write_buf).expect(..);
\* write.write_all(&write_buf[..packet_length]).await.expect(..)
PacketWrite ==
    /\ wpc = "idle"
    /\ taken < Len(items)
    /\ LET e == Encode(codec, delimiter, items[taken + 1], wbuffer) IN
       /\ wbuffer' = e.dst
       /\ size' = e.size
       /\ wret' = IF e.ok THEN "Ok" ELSE "Encode"
       /\ wpc' = IF e.ok THEN "idle" ELSE "stopped"
       /\ wire' = wire \o Slice(e.dst, 0, e.size)
       /\ closed' = ~e.ok
       /\ taken' = taken + 1
       /\ sent' = IF e.ok THEN sent + 1 ELSE sent
    /\ UNCHANGED <<items, written, log, sink, capacity, faults>>
    /\ UNCHANGED readerVars

\* the task is over and its write half is dropped
PacketClose ==
    /\ wpc = "idle"
    /\ taken = Len(items)
    /\ wpc' = "stopped"
    /\ closed' = TRUE
    /\ UNCHANGED <<items, taken, sent, wbuffer, size, written, wret, log, sink>>
    /\ UNCHANGED <<wire, capacity, faults>>
    /\ UNCHANGED readerVars

NextPacket == maybe_next \/ PacketWrite \/ PacketClose

SpecPacket == InitPacket /\ [][NextPacket]_vars

Encoded(item) ==
    LET e == PacketEncode(item, Zeros(PacketLen)) IN Slice(e.dst, 0, e.size)

\* the i-th packet of the stream
StreamPacket(i) == [payload_type |-> 3 + (i % 2), sequence_number |-> i % 2]

FlipBit(bytes, k, b) ==
    [i \in 1..Len(bytes) |-> IF i = k THEN Xor8(bytes[i], 2 ^ b) ELSE bytes[i]]

PeerTexts == {<<123, 48, 125>>, <<123, 48, 125, 32>>, <<123, 48, 125, 125>>}

PeerTypes == {0, 1, 3}

PeerPacket(type, text) ==
    LET ready == U16Bytes(HeaderSize + Len(text)) \o U16Bytes(type)
                 \o <<0, 0, 0, 0>> \o text
    IN SetChecksum(ready, CalculateChecksum(ready))

InitForeign ==
    /\ codec = "packet"
    /\ delimiter = <<>>
    /\ seen = 0
    /\ \E len \in {PacketLen + 1, 2 * PacketLen} : ReadStateNew(len)
    /\ ret = "start"
    /\ frames = <<>>
    /\ consumed = 0
    /\ calls = 0
    /\ adapter = "next"
    /\ results = <<>>
    /\ call = <<>>
    /\ reads = 0
    /\ overflow_checks \in BOOLEAN
    /\ early_shift = FALSE
    /\ N = 0
    /\ \E n \in 1..MaxItems : items = [i \in 1..n |-> StreamPacket(i)]
    /\ LET stream == Flatten([i \in 1..Len(items) |-> Encoded(items[i])]) IN
       \/ \E k \in 1..Len(stream), b \in 0..7 : wire = FlipBit(stream, k, b)
       \/ \E type \in PeerTypes, text \in PeerTexts :
             wire = PeerPacket(type, text) \o stream
    /\ rpos = 0
    /\ closed = TRUE
    /\ capacity = HeaderSize
    /\ faults = FALSE
    /\ taken = Len(items)
    /\ sent = Len(items)
    /\ wbuffer = <<>>
    /\ wpc = "stopped"
    /\ size = 0
    /\ written = 0
    /\ wret = "Ok"
    /\ log = <<>>
    /\ sink = "none"

NextForeign == maybe_next

SpecForeign == InitForeign /\ [][NextForeign]_vars

\* the stream as the encoder wrote it
Undamaged == Flatten([i \in 1..Len(items) |-> Encoded(items[i])])

\* one byte of the stream differs from what was written
Flipped == Len(wire) = Len(Undamaged) /\ wire # Undamaged

\* the packet (1-based) the differing byte belongs to
FlippedPacket ==
    ((CHOOSE k \in 1..Len(wire) : wire[k] # Undamaged[k]) - 1) \div PacketLen + 1

\* C15: with one bit of one packet flipped, the driver yields the packets
\* before it, then Decode(Checksum), and nothing else: no other error, no
\* panic, no terminal None, no further packet.
C15_BitFlipChecksum ==
    (codec = "packet" /\ Flipped) =>
        /\ IsPrefix(frames, SubSeq(items, 1, FlippedPacket - 1))
        /\ ret \in Terminal =>
              /\ ret = "Decode(Checksum)"
              /\ frames = SubSeq(items, 1, FlippedPacket - 1)

C17_HeaderLength ==
    (codec = "packet" /\ Running /\ is_framable /\ ~shift) =>
        LET r == Decode(codec, delimiter, seen, Src) IN
        /\ Len(Src) < HeaderSize => r.kind = "none"
        /\ Len(Src) >= HeaderSize =>
              /\ HeaderPayloadLength(Src, overflow_checks).kind = "ok"
              /\ r.kind # "panic"
              /\ Len(Src) < U16(Src[1], Src[2]) => r.kind = "none"

\* what the decoder called by the next step returns: decode_eof at
\* end-of-stream, decode before
Decoded ==
    IF eof THEN DecodeEof(codec, delimiter, seen, Src)
    ELSE Decode(codec, delimiter, seen, Src)

\* C20 (I2): a step whose decoder call (decode or decode_eof) returns a frame
\* of size n adds exactly n to total_consumed and returns that frame; index,
\* eof, is_framable and shift stay, nothing is read, and the buffer is left as
\* the decoder left it.
C20_I2 ==
    [][(calls' # calls /\ is_framable /\ ~shift /\ Decoded.kind = "frame") =>
          /\ total_consumed' = total_consumed + Decoded.size
          /\ ret' = "frame"
          /\ frames' = Collect(frames, Decoded.item)
          /\ UNCHANGED <<index, eof, is_framable, shift, rpos>>
          /\ buffer' = Fill(buffer, total_consumed, DecodeWrites(codec, Src))]_vars

C20_Witness ==
    /\ ret = "frame"
    /\ consumed > 0
    /\ total_consumed > consumed
    /\ total_consumed < index
    /\ Len(frames) >= 2


\* ------------------------------------- the driver over a failing transport
\* The read driver in either build (default features, buffer-early-shift), with
\* each of the three codecs, every buffer length, a transport whose reads may
\* fail, and a caller that calls next again after a terminal result.
InitFaulty ==
    /\ codec \in {"lines", "delimiter", "bytes"}
    /\ delimiter = IF codec = "delimiter" THEN <<HASH, HASH>> ELSE <<>>
    /\ seen = 0
    /\ \E len \in 0..MaxBuf : ReadStateNew(len)
    /\ ret = "start"
    /\ frames = <<>>
    /\ consumed = 0
    /\ calls = 0
    /\ adapter = "next"
    /\ results = <<>>
    /\ call = <<>>
    /\ reads = 0
    /\ overflow_checks = TRUE
    /\ early_shift \in BOOLEAN
    /\ N = 0
    /\ wire \in SeqsUpTo(CASE codec = "lines" -> LineBytes
                           [] codec = "delimiter" -> DelimBytes
                           [] OTHER -> RawBytes, MaxStream)
    /\ rpos = 0
    /\ closed = TRUE
    /\ capacity = MaxStream
    /\ faults = TRUE
    /\ WriterIdle

NextFaulty == maybe_next \/ StepReadError \/ CallAgain

SpecFaulty == InitFaulty /\ [][NextFaulty]_vars

\* a step of maybe_next is taken
IsStep == calls' # calls

\* C21: a step that starts with shift set only compacts: it moves
\* buffer[total_consumed..index] to the front, subtracts total_consumed from
\* index, zeroes total_consumed, clears shift and returns progress, without a
\* decoder call or a transport read; afterwards buffer[0..index) is what
\* buffer[total_consumed..index) was, and with total_consumed = 0 neither the
\* contents nor the indices change.
C21_ShiftCompacts ==
    [][(IsStep /\ shift) =>
          /\ Slice(buffer', 0, index') = Slice(buffer, total_consumed, index)
          /\ index' = index - total_consumed
          /\ total_consumed' = 0
          /\ ~shift'
          /\ ret' = "progress"
          /\ call' = <<>>
          /\ UNCHANGED <<seen, rpos, frames, eof, is_framable>>
          /\ total_consumed = 0 => UNCHANGED <<buffer, index>>]_vars

\* the state right after a shift that moved the bytes behind the first frame
\* to the front of the buffer
C21_Witness ==
    /\ ret = "progress"
    /\ call = <<>>
    /\ ~is_framable
    /\ ~shift
    /\ Len(frames) = 1
    /\ total_consumed = 0
    /\ index > 0
    /\ index = rpos - consumed
    /\ Slice(buffer, 0, index) = Slice(wire, consumed, rpos)

\* C22: I4, eof is monotone: once a read has returned 0 and eof is set, no
\* step of any outcome, and no further call of next, clears it.
C22_I4 == [][eof => eof']_vars

\* next returned None at end of stream, was called again, and read 0 a second
\* time; eof is still set
C22_Witness ==
    /\ eof
    /\ Len(results) = 1
    /\ results[1] = "None"
    /\ call = <<"read">>
    /\ ret = "progress"

\* C23: I5, a step taken while is_framable or shift is set does not read from
\* the transport; a read happens only in a step that starts with shift clear,
\* is_framable clear and index < buffer.len().
C23_I5 ==
    [][/\ (IsStep /\ (is_framable \/ shift)) =>
             call' # <<"read">> /\ rpos' = rpos
       /\ (IsStep /\ (call' = <<"read">> \/ rpos' # rpos)) =>
             ~shift /\ ~is_framable /\ index < Len(buffer)]_vars

\* a read into the room behind a frame that was already taken from the buffer
C23_Witness ==
    /\ call = <<"read">>
    /\ ret = "progress"
    /\ total_consumed > 0
    /\ rpos > index - total_consumed
    /\ is_framable

\* C24: every decoder call of a step is given exactly
\* buffer[total_consumed..index) as its src; a step makes at most one decoder
\* call (none in a shift, read or BufferTooSmall step), and the call is
\* decode_eof exactly when eof is set, decode otherwise. Only a decoder call
\* moves the decoder's cursor or yields a frame.
C24_DecoderCall ==
    [][IsStep =>
          /\ Len(call') = 2 =>
                /\ call'[2] = Slice(buffer, total_consumed, index)
                /\ call'[1] = IF eof THEN "decode_eof" ELSE "decode"
                /\ is_framable /\ ~shift
          /\ Len(call') # 2 => UNCHANGED <<seen, frames, total_consumed>> \/ shift
          /\ (is_framable /\ ~shift) => Len(call') = 2]_vars

\* decode_eof was called on the unterminated tail the buffer held behind the
\* first frame
C24_Witness ==
    /\ Len(call) = 2
    /\ call[1] = "decode_eof"
    /\ call[2] # <<>>
    /\ Len(frames) = 1
    /\ ret = "BytesRemainingOnStream"
    /\ total_consumed > 0
    /\ call[2] = Slice(buffer, total_consumed, index)

C26_ReadStep ==
    [][(IsStep /\ ~shift /\ ~is_framable /\ index < Len(buffer)) =>
          /\ call' = <<"read">>
          /\ Slice(buffer', 0, index) = Slice(buffer, 0, index)
          /\ UNCHANGED <<seen, frames, total_consumed, shift>>
          /\ \/ /\ ret' = "IO"
                /\ UNCHANGED <<buffer, index, eof, is_framable, rpos>>
             \/ /\ ret' = "progress"
                /\ rpos' = rpos
                /\ eof' /\ is_framable'
                /\ UNCHANGED <<buffer, index>>
             \/ /\ ret' = "progress"
                /\ rpos' > rpos
                /\ index' = index + (rpos' - rpos)
                /\ index' <= Len(buffer)
                /\ Slice(buffer', index, index') = Slice(wire, rpos, rpos')
                /\ is_framable'
                /\ UNCHANGED eof]_vars

\* a read that failed after a frame was taken, with bytes left in the buffer
C26_Witness ==
    /\ call = <<"read">>
    /\ ret = "IO"
    /\ Len(frames) = 1
    /\ total_consumed > 0
    /\ index > total_consumed

\* the bytes that end a frame for the decoder in use (Bytes has none)
Separator == IF codec = "lines" THEN <<LF>> ELSE delimiter

\* every frame of the stream, with its terminator, fits in the buffer; a frame
\* of Bytes is whatever the buffer holds
FramesFit == codec = "bytes" \/ AllFit(wire, Separator, Len(buffer))

\* the buffer has room, and what follows the last terminator does not fill it
TailFits ==
    /\ Len(buffer) >= 1
    /\ codec = "bytes" \/ Len(Rest(wire, Separator)) < Len(buffer)

\* a step returns BufferTooSmall exactly when shift and is_framable are clear
\* and index >= buffer.len(), and then index = buffer.len() and
\* total_consumed = 0
TooSmallWhenFull ==
    /\ ret' = "BufferTooSmall" <=>
          ~shift /\ ~is_framable /\ index >= Len(buffer)
    /\ ret' = "BufferTooSmall" =>
          /\ index' = Len(buffer')
          /\ total_consumed' = 0

\* C27 (as stated): BufferTooSmall is returned exactly when shift and
\* is_framable are clear and index >= buffer.len(), with index = buffer.len()
\* and total_consumed = 0, and never while every frame of the stream with its
\* terminator fits in the buffer.
C27_NeverWhileFramesFit ==
    [][IsStep =>
          /\ TooSmallWhenFull
          /\ ret' = "BufferTooSmall" => ~FramesFit]_vars

\* C27 (amended): the same, but never returned while the buffer has at least
\* one byte, every frame with its terminator fits in it, and the unterminated
\* tail of the stream, if any, is shorter than the buffer.
C27_BufferTooSmall ==
    [][IsStep =>
          /\ TooSmallWhenFull
          /\ ret' = "BufferTooSmall" => ~(FramesFit /\ TailFits)]_vars

\* BufferTooSmall after a frame was yielded: the buffer was shifted and then
\* filled by the start of a frame that does not fit
C27_Witness ==
    /\ ret = "BufferTooSmall"
    /\ Len(frames) >= 1
    /\ ~FramesFit
    /\ index = Len(buffer)
    /\ total_consumed = 0
    /\ call = <<>>

\* ------------------------------------ a decoder over a src that grows
\* A Lines or Delimiter decoder, called by hand as the driver calls it: on a
\* src that is a longer and longer prefix of what the peer sent (wire), keeping
\* its cursor between the calls, and, after a frame, on what follows the
\* consumed bytes. buffer is the src of the last call, results the kinds of
\* the results so far.
InitGrow ==
    /\ codec \in {"lines", "delimiter"}
    /\ delimiter \in IF codec = "delimiter" THEN SeqsUpTo(DelimBytes, MaxDelim)
                     ELSE {<<>>}
    /\ seen = 0
    /\ ReadStateNew(0)
    /\ ret = "start"
    /\ frames = <<>>
    /\ consumed = 0
    /\ calls = 0
    /\ CallerNext
    /\ wire \in SeqsUpTo(IF codec = "lines" THEN LineBytes ELSE DelimBytes,
                         MaxStream)
    /\ rpos = 0
    /\ closed = TRUE
    /\ capacity = MaxStream
    /\ faults = FALSE
    /\ WriterIdle

\* decode(&mut src) on the first n bytes of wire
GrowDecode ==
    /\ ret \in {"start", "none", "drained"}
    /\ \E n \in Len(buffer)..Len(wire) :
          /\ n > Len(buffer) \/ ret # "none"
          /\ LET src == Slice(wire, 0, n)
                 r == Decode(codec, delimiter, seen, src)
             IN /\ buffer' = src
                /\ call' = <<"decode", src>>
                /\ reads' = 0
                /\ seen' = r.seen
                /\ ret' = r.kind
                /\ results' = Append(results, r.kind)
                /\ consumed' = r.size
                /\ frames' = IF r.kind = "frame" THEN Append(frames, r.item)
                             ELSE frames
    /\ UNCHANGED <<codec, delimiter, index, total_consumed, eof, is_framable,
                   shift, rpos, calls, adapter, overflow_checks, early_shift, N>>
    /\ UNCHANGED <<wire, closed, capacity, faults, writerVars>>

\* the caller drops the bytes of the frame it was given
GrowDrain ==
    /\ ret = "frame"
    /\ consumed <= Len(buffer)
    /\ wire' = Slice(wire, consumed, Len(wire))
    /\ buffer' = Slice(buffer, consumed, Len(buffer))
    /\ ret' = "drained"
    /\ call' = <<>>
    /\ reads' = 0
    /\ UNCHANGED <<codec, delimiter, seen, index, total_consumed, eof,
                   is_framable, shift, frames, rpos, consumed, calls,
                   callerVars>>
    /\ UNCHANGED <<closed, capacity, faults, writerVars>>

NextGrow == GrowDecode \/ GrowDrain

SpecGrow == InitGrow /\ [][NextGrow]_vars

\* C28: a Lines decoder that keeps its cursor between calls on a growing src
\* returns Ok(None) as long as src holds no '\n'; once src holds one, at p, it
\* returns the frame src[..p] without one trailing '\r' and consumed = p + 1,
\* which is what a fresh decoder returns on that src, and its cursor is 0
\* again.
C28_LinesResume ==
    (codec = "lines" /\ Len(call) = 2) =>
        LET src == call[2]
            p == FirstAt(src, <<LF>>)
        IN IF p < 0
           THEN /\ ret = "none"
                /\ LinesDecode(0, src).kind = "none"
           ELSE /\ ret = "frame"
                /\ frames[Len(frames)] = DropCR(Slice(src, 0, p))
                /\ consumed = p + 1
                /\ seen = 0
                /\ LinesDecode(0, src) =
                      DecodeFrame(frames[Len(frames)], consumed, 0)

\* the third call on a growing src finds the '\n' behind a '\r', after two
\* calls that found none
C28_Witness ==
    /\ codec = "lines"
    /\ results = <<"none", "none", "frame">>
    /\ call = <<"decode", <<97, CR, LF>>>>
    /\ frames = <<(<<97>>)>>
    /\ consumed = 3
    /\ seen = 0

\* C29: Delimiter::decode returns a value for every delimiter (the empty one
\* included), every src and every cursor it can have reached: Ok(None), or a
\* frame whose consumed size is at most src.len(); it never reads outside src
\* and never underflows.
C29_DelimiterTotal ==
    (codec = "delimiter" /\ Len(call) = 2) =>
        /\ ret \in {"none", "frame"}
        /\ ret = "frame" => consumed <= Len(call[2])

\* ------------------------------------------ the driver with owned codecs
\* a, 0xFF (never part of UTF-8 text) and '\n'
StrBytes == {97, 255, LF}

\* The owned read driver with OwnedLines<N>, StringLines<N> or OwnedBytes<N>,
\* for every capacity N up to MaxItemLen, every buffer length and every stream.
InitOwned ==
    /\ codec \in {"owned-lines", "string-lines", "owned-bytes"}
    /\ delimiter = <<>>
    /\ seen = 0
    /\ \E len \in 0..MaxBuf : ReadStateNew(len)
    /\ ret = "start"
    /\ frames = <<>>
    /\ consumed = 0
    /\ calls = 0
    /\ adapter = "next"
    /\ results = <<>>
    /\ call = <<>>
    /\ reads = 0
    /\ overflow_checks = TRUE
    /\ early_shift = FALSE
    /\ N \in 0..MaxItemLen
    /\ wire \in SeqsUpTo(CASE codec = "owned-lines" -> LineBytes
                           [] codec = "string-lines" -> StrBytes
                           [] OTHER -> RawBytes, MaxStream)
    /\ rpos = 0
    /\ closed = TRUE
    /\ capacity = MaxStream
    /\ faults = FALSE
    /\ WriterIdle

NextOwned == maybe_next

SpecOwned == InitOwned /\ [][NextOwned]_vars

\* C30: an owned codec of capacity N, called by the driver on
\* buffer[total_consumed..index): when the borrowed decode returns a frame of
\* at most N bytes the owned decode returns an item with the same bytes and
\* the same consumed size; when the frame is longer than N it returns the
\* capacity error, which the driver returns as a Decode error, and no item;
\* when the borrowed decode returns Ok(None) so does the owned one (the driver
\* goes on, or ends the stream at EOF).
C30_OwnedDecode ==
    [][(IsStep /\ is_framable /\ ~shift) =>
          LET src == Slice(buffer, total_consumed, index)
              b == Decode(Inner(codec), delimiter, seen, src)
          IN /\ (b.kind = "frame" /\ Len(b.item) <= N) =>
                   /\ ret' = "frame"
                   /\ frames' = Collect(frames, b.item)
                   /\ consumed' = b.size
                   /\ total_consumed' = total_consumed + b.size
             /\ (b.kind = "frame" /\ Len(b.item) > N) =>
                   /\ ret' = "Decode(BufferTooSmall)"
                   /\ UNCHANGED <<frames, total_consumed>>
             /\ b.kind = "none" =>
                   /\ ret' \in {"progress", "None", "BytesRemainingOnStream"}
                   /\ UNCHANGED <<frames, total_consumed>>
             /\ b.kind = "error" =>
                   /\ ret' = b.item
                   /\ UNCHANGED <<frames, total_consumed>>]_vars

\* a line that fills the item exactly was yielded, and the longer line behind
\* it was refused
C30_Witness ==
    /\ codec \in {"owned-lines", "string-lines"}
    /\ N >= 1
    /\ ret = "Decode(BufferTooSmall)"
    /\ Len(frames) = 1
    /\ Len(frames[1]) = N
    /\ Len(call) = 2
    /\ FirstAt(call[2], <<LF>>) > N

\* ----------------------------- echo: next! and send! on one Framed engine
\* EchoItem echoing the first frame of the session again
EchoItemFirst == frames[1]

\* the item the echo loop passes to send!: the frame next! just returned
EchoItem == frames[Len(frames)]

\* A bidirectional engine over a duplex transport: the peer's bytes arrive on
\* wire; what the engine writes goes to the other direction, which log
\* records. The caller may answer a frame with send! before it calls next!
\* again, and stops at the first send that fails.
InitEcho ==
    /\ codec \in {"lines", "delimiter"}
    /\ delimiter = IF codec = "delimiter" THEN <<HASH, HASH>> ELSE <<>>
    /\ seen = 0
    /\ \E len \in 0..MaxBuf : ReadStateNew(len)
    /\ ret = "start"
    /\ frames = <<>>
    /\ consumed = 0
    /\ calls = 0
    /\ CallerNext
    /\ wire \in SeqsUpTo(IF codec = "lines" THEN LineBytes ELSE DelimBytes,
                         MaxStream)
    /\ rpos = 0
    /\ closed = TRUE
    /\ capacity = MaxStream
    /\ faults = FALSE
    /\ items = <<>>
    /\ \E len \in {MaxItemLen, MaxStream + MaxDelim} : wbuffer = Zeros(len)
    /\ taken = 0
    /\ sent = 0
    /\ wpc = "idle"
    /\ size = 0
    /\ written = 0
    /\ wret = "start"
    /\ log = <<>>
    /\ sink = "none"

\* a step of next!, between two sends
EchoStep ==
    /\ wpc = "idle"
    /\ maybe_next

\* send!(server, item) with the frame just returned
EchoCall ==
    /\ wpc = "idle"
    /\ ret = "frame"
    /\ frames # <<>>
    /\ Len(items) < Min(MaxItems, Len(frames))
    /\ items' = Append(items, EchoItem)
    /\ taken' = taken + 1
    /\ wpc' = "encode"
    /\ UNCHANGED <<sent, wbuffer, size, written, wret, log, sink>>
    /\ UNCHANGED <<readerVars, pipeVars>>

\* one write call of write_all on the outgoing direction of the transport,
\* which accepts the whole slice or, a short write, its first byte
EchoWrite ==
    /\ wpc = "write_all"
    /\ \E k \in {1, size - written} :
          /\ written' = written + k
          /\ log' = Logged("write", Slice(wbuffer, written, written + k))
          /\ wpc' = StageAfterWrite(written + k, size)
    /\ UNCHANGED <<items, taken, sent, wbuffer, size, wret, sink>>
    /\ UNCHANGED <<readerVars, pipeVars>>

NextEcho == EchoStep \/ EchoCall \/ SendEncode \/ EchoWrite \/ SendFlush

SpecEcho == InitEcho /\ [][NextEcho]_vars

\* the fields of the read state, the decoder's cursor and the read side of
\* the transport
readState == <<buffer, index, total_consumed, eof, is_framable, shift, seen,
               rpos, frames, ret>>

\* the write state and what was written to the transport
writeState == <<wbuffer, size, written, log, sent, wret, wpc>>

\* C31: on a bidirectional engine send changes only the write buffer and the
\* transport, and no field of the read state; a read step does not change the
\* write buffer; so a frame a step returned can be passed to send, which
\* writes its encoding, and the read steps go on as without the send: the
\* lines of the stream are yielded in order whatever was sent in between.
C31_Decoupled ==
    /\ [][(~IsStep => UNCHANGED readState) /\ (IsStep => UNCHANGED writeState)]_vars
    /\ [](/\ wpc \in {"encode", "write_all", "flush"} =>
                 items[taken] = frames[Len(frames)]
          /\ \A i \in 1..sent : CompleteSend(i)
          /\ (LinesFit /\ Len(buffer) >= 1) => LinesOutcome)

\* both lines of the stream were echoed, each right after it was returned, and
\* the session ended
C31_Witness ==
    /\ codec = "lines"
    /\ wire = <<97, LF, CR, LF>>
    /\ frames = <<(<<97>>), <<>>>>
    /\ items = frames
    /\ sent = 2
    /\ ret = "None"
    /\ Len(buffer) = 2

\* ------------------------------------------- a caller that abandons reads
\* The caller drops the future of a step while it is suspended in
\* read(..).await: the statements behind the await do not run. The transport
\* may already have stored bytes in the slice it was given; it delivers them
\* again to the next read (a read that is dropped has read nothing).
StepReadCancelled ==
    /\ Running
    /\ calls' = 1 - calls
    /\ UNCHANGED callerVars
    /\ MayRead(shift, is_framable, index, Len(buffer))
    /\ call' = <<"cancelled">>
    /\ reads' = ReadsBefore + 1
    /\ ret' = "cancelled"
    /\ \E k \in 0..Min(Len(wire) - rpos, Len(buffer) - index) :
          buffer' = Fill(buffer, ReadDest(index), Slice(wire, rpos, rpos + k))
    /\ UNCHANGED <<codec, delimiter, seen, index, total_consumed, eof,
                   is_framable, shift, frames, rpos, consumed>>
    /\ UNCHANGED <<writerVars, pipeVars>>

NextCancel == maybe_next \/ StepReadCancelled

SpecCancel == InitRead /\ [][NextCancel]_vars

\* C32: a step abandoned while it is suspended in the transport read leaves
\* index, total_consumed, eof, is_framable and shift as they were before the
\* step, and the bytes already in the buffer; I1, I4 and I5 go on holding (I2
\* and I3 are about steps that do not read), and the later steps frame the
\* stream without losing or duplicating a byte.
C32_ReadCancelled ==
    /\ [][(IsStep /\ call' = <<"cancelled">>) =>
             /\ UNCHANGED <<index, total_consumed, eof, is_framable, shift,
                            seen, frames, rpos>>
             /\ Slice(buffer', 0, index) = Slice(buffer, 0, index)]_vars
    /\ [][eof => eof']_vars
    /\ [][(IsStep /\ (is_framable \/ shift)) =>
             call' \notin {<<"read">>, <<"cancelled">>}]_vars
    /\ [](/\ 0 <= total_consumed
          /\ total_consumed <= index
          /\ index <= Len(buffer)
          /\ (LinesFit /\ Len(buffer) >= 1) => LinesOutcome)

\* a read was abandoned behind the first frame, with unframed bytes in the
\* buffer, after the transport had stored a byte in the free part
C32_Witness ==
    /\ ret = "cancelled"
    /\ Len(frames) = 1
    /\ total_consumed < index
    /\ index < Len(buffer)
    /\ rpos < Len(wire)
    /\ buffer[index + 1] = wire[rpos + 1]

\* --------------------------------------------- where the bytes of a stream are
\* Sessions of the driver with each codec: Lines, Delimiter and Bytes in both
\* builds over a transport that may fail, and the packet codec on the streams
\* of a peer; the caller may call next again after a terminal result.
InitConserve == InitFaulty \/ InitForeign

NextConserve == maybe_next \/ StepReadError \/ CallAgain

SpecConserve == InitConserve /\ [][NextConserve]_vars

\* number of bytes the frames returned so far have consumed
ConsumedBytes == rpos - framable

\* buffer[total_consumed..index) holds the bytes delivered last, in order
UnconsumedKept ==
    /\ ConsumedBytes >= 0
    /\ Slice(buffer, total_consumed, index) = Slice(wire, ConsumedBytes, rpos)

\* the frames returned so far are the leading pieces of the stream, and have
\* consumed exactly these pieces with their terminators
FramesKept ==
    CASE codec \in {"lines", "delimiter"} ->
           LET ps == Pieces(wire, Separator) IN
           /\ Len(frames) <= Len(ps)
           /\ \A i \in 1..Len(frames) :
                 frames[i] = IF codec = "lines" THEN DropCR(ps[i]) ELSE ps[i]
           /\ ConsumedBytes =
                 Len(Flatten([i \in 1..Len(frames) |-> ps[i] \o Separator]))
      [] codec = "bytes" -> Flatten(frames) = Slice(wire, 0, ConsumedBytes)
      [] OTHER -> TRUE

\* a decode call of this session returned an error
DecodeFailed ==
    \/ ret \in DecodeErrors
    \/ \E i \in 1..Len(results) : results[i] \in DecodeErrors

C34_ReadHasRoom ==
    /\ [][(IsStep /\ call' = <<"read">>) =>
             /\ index < Len(buffer)
             /\ (ret' = "progress" /\ rpos' = rpos) =>
                   (rpos = Len(wire) /\ closed /\ eof')]_vars
    /\ [](Len(buffer) = 0 =>
             /\ ret \in {"start", "BufferTooSmall", "again"}
             /\ call = <<>>
             /\ rpos = 0
             /\ ~eof)

\* a zero-length buffer in front of a stream that has bytes: BufferTooSmall,
\* and nothing was read
C34_Witness ==
    /\ Len(buffer) = 0
    /\ wire # <<>>
    /\ ret = "BufferTooSmall"
    /\ results = <<>>
    /\ rpos = 0
    /\ call = <<>>

\* C35: once the transport has reported the end of the stream, every step up
\* to the terminal outcome is a decode_eof call on buffer[total_consumed..index)
\* that returns a frame or ends the session (None, an error, or the decoder's
\* panic); none of these steps reads from the transport or shifts the buffer.
C35_AfterEof ==
    [][(IsStep /\ eof /\ ret \in {"progress", "frame"}) =>
          /\ call' = <<"decode_eof", Slice(buffer, total_consumed, index)>>
          /\ ret' \in {"frame", "None", "BytesRemainingOnStream", "panic"}
                      \cup DecodeErrors
          /\ ~shift /\ ~shift'
          /\ UNCHANGED <<rpos, index, eof>>
          /\ ret' = "frame" => total_consumed' = total_consumed + consumed'
          /\ ret' # "frame" => UNCHANGED total_consumed]_vars

\* the stream ended behind its second line: the read of 0 was followed by one
\* decode_eof call on the empty rest, which ended the session with None
C35_Witness ==
    /\ eof
    /\ ret = "None"
    /\ call = <<"decode_eof", <<>>>>
    /\ Len(frames) = 2
    /\ results = <<>>
    /\ rpos = Len(wire)

\* C36: a step that returns Decode(e), BufferTooSmall or IO(e) leaves index,
\* total_consumed, eof, is_framable and shift as they were before the step; a
\* step that returns BytesRemainingOnStream changes only is_framable, which it
\* clears; after any error total_consumed <= index <= buffer.len() holds.
C36_StateOnError ==
    /\ [][(IsStep /\ ret' \in DecodeErrors \cup {"BufferTooSmall", "IO"}) =>
             UNCHANGED <<index, total_consumed, eof, is_framable, shift>>]_vars
    /\ [][(IsStep /\ ret' = "BytesRemainingOnStream") =>
             /\ UNCHANGED <<index, total_consumed, eof, shift>>
             /\ is_framable /\ ~is_framable']_vars
    /\ [](ret \in ReadErrors =>
             /\ 0 <= total_consumed
             /\ total_consumed <= index
             /\ index <= Len(buffer))

\* the packet behind the first one failed its checksum: the first is consumed,
\* the failed one is still in the buffer, framable
C36_Witness ==
    /\ codec = "packet"
    /\ ret = "Decode(Checksum)"
    /\ Len(frames) = 1
    /\ total_consumed > 0
    /\ total_consumed < index
    /\ is_framable
    /\ ~shift

\* ------------------------------------------- the two builds, side by side
\* The same stream is framed twice with the same codec and buffer length:
\* first by the default build, whose frames and terminal result are kept in
\* items and wret, then by the build with buffer-early-shift, each with every
\* split of the stream across reads.
InitPolicies ==
    /\ codec \in {"lines", "delimiter"}
    /\ delimiter = IF codec = "delimiter" THEN <<HASH, HASH>> ELSE <<>>
    /\ seen = 0
    /\ \E len \in 0..MaxBuf : ReadStateNew(len)
    /\ ret = "start"
    /\ frames = <<>>
    /\ consumed = 0
    /\ calls = 0
    /\ CallerNext
    /\ wire \in SeqsUpTo(IF codec = "lines" THEN LineBytes ELSE DelimBytes,
                         MaxStream)
    /\ rpos = 0
    /\ closed = TRUE
    /\ capacity = MaxStream
    /\ faults = FALSE
    /\ WriterIdle

\* the session of the default build is over: a fresh engine of the other
\* build is given the stream from its start
OtherBuild ==
    /\ ~Running
    /\ ~early_shift
    /\ items' = frames
    /\ wret' = ret
    /\ early_shift' = TRUE
    /\ buffer' = Zeros(Len(buffer))
    /\ index' = 0
    /\ total_consumed' = 0
    /\ eof' = FALSE
    /\ is_framable' = FALSE
    /\ shift' = FALSE
    /\ seen' = 0
    /\ rpos' = 0
    /\ ret' = "start"
    /\ frames' = <<>>
    /\ consumed' = 0
    /\ call' = <<>>
    /\ reads' = 0
    /\ UNCHANGED <<codec, delimiter, calls, adapter, results, overflow_checks, N>>
    /\ UNCHANGED <<taken, sent, wbuffer, wpc, size, written, log, sink>>
    /\ UNCHANGED pipeVars

NextPolicies == maybe_next \/ OtherBuild

SpecPolicies == InitPolicies /\ [][NextPolicies]_vars

\* C37: for the Lines and Delimiter codecs, every buffer length, every stream
\* and every split across reads, the build with buffer-early-shift returns the
\* same frames in the same order and the same terminal outcome as the default
\* build.
C37_PoliciesAgree ==
    early_shift =>
        /\ IsPrefix(frames, items)
        /\ ~Running => (frames = items /\ ret = wret)

\* both builds yielded the empty first line and ended in BufferTooSmall on
\* the second, in a buffer in which the first line left room
C37_Witness ==
    /\ early_shift
    /\ codec = "lines"
    /\ ret = "BufferTooSmall"
    /\ wret = "BufferTooSmall"
    /\ frames = items
    /\ Len(frames) = 1
    /\ Len(buffer) >= 3
    /\ Len(frames[1]) = 0

\* ------------------------------------------------ reads of one next call
\* one next call makes at most buffer.len() + 1 transport reads
ReadsBounded == reads <= Len(buffer) + 1

\* the stream holds no frame terminator and fills the buffer before it ends:
\* what the driver sees of a source that never ends and never terminates a frame
EndlessFrame ==
    /\ codec \in {"lines", "delimiter"}
    /\ ~Contains(wire, Separator)
    /\ Len(wire) >= Len(buffer)

\* C38: next always returns: one next call makes at most buffer.len() + 1
\* transport reads before it returns a frame, an error or None (it never ends
\* otherwise), and on a source that never contains a frame terminator a call
\* that ends the session, the transport not failing, ends it with
\* BufferTooSmall.
C38_NextReturns ==
    /\ ReadsBounded
    /\ ret # "panic"
    /\ (EndlessFrame /\ ret \in Terminal \ {"IO"}) => ret = "BufferTooSmall"

\* ------------------------------------------- the decoder's cursor and the driver
\* the bytes of the framable region the decoder has scanned: src[..seen]
ScannedPrefix == Slice(buffer, total_consumed, total_consumed + seen)

\* the step calls decode or decode_eof
CallsDecoder == call' # <<>> /\ call'[1] \in {"decode", "decode_eof"}

\* C39: at every decode or decode_eof call the driver makes on a Lines or
\* Delimiter codec, seen <= src.len(), and seen is 0 at the call that follows a
\* returned frame; the call leaves src[..seen] as it was scanned, and the
\* steps between two calls (shift, read, BufferTooSmall) keep seen and keep
\* src[..seen] the same bytes at the same offsets within the framable region.
C39_CursorComposes ==
    [][(IsStep /\ codec \in {"lines", "delimiter"}) =>
          IF CallsDecoder
          THEN /\ seen <= Len(call'[2])
               /\ ret = "frame" => seen = 0
               /\ seen' <= Len(call'[2])
               /\ ret' # "frame" => ScannedPrefix' = Slice(call'[2], 0, seen')
          ELSE /\ seen' = seen
               /\ seen <= index' - total_consumed'
               /\ ScannedPrefix' = ScannedPrefix]_vars

\* a line whose first byte was scanned before a shift and a read is framed by
\* the call that resumes at seen = 1
C39_Witness ==
    /\ codec = "lines"
    /\ Len(buffer) = 3
    /\ wire = <<97, LF, 97, 97, LF>>
    /\ call = <<"decode", <<97, 97, LF>>>>
    /\ ret = "frame"
    /\ frames = <<<<97>>, <<97, 97>>>>
    /\ seen = 0


====
